---- MODULE Spec2Model ----
(***************************************************************************)
(* express-log-mongo (src/index.js): the format compiler, the property     *)
(* namespace that holds tokens and formats, the logger middleware and the  *)
(* fire-and-forget insert.                                                 *)
(*                                                                         *)
(* Strings the code scans character by character (format templates, token  *)
(* names, token arguments) are sequences of one-character strings.         *)
(***************************************************************************)
EXTENDS Integers, Sequences, FiniteSets, TLC

VARIABLES
    expressMongo,   \* the exported function object: property name -> value
    tokenNames,     \* history: names token(name, fn) was called with
    formatNames,    \* history: names format(name, fmt) was called with
    calls,          \* history: number of token(), format(), expressMongo() calls
    mw,             \* the closure variables of the logger last created
    rq,             \* per request: the req/res pair and the logger's position
    inserts,        \* the insertDB calls issued, in order
    console,        \* what console.log received (indices into inserts)
    now,            \* the clock, in ticks of TickNs nanoseconds
    cfmt,           \* compile(format): the argument
    cfn,            \* compile(format): what the call produced
    cline           \* what calling the compiled function produced

vars == <<expressMongo, tokenNames, formatNames, calls, mw, rq,
          inserts, console, now, cfmt, cfn, cline>>

----------------------------------------------------------------------------
(* Bounds *)

MaxFrags == 3
MaxCalls == 2
MaxClock == 1
MaxWriteHeads == 2

----------------------------------------------------------------------------
(* Characters and names *)

Letters ==
    {"a","b","c","d","e","f","g","h","i","j","k","l","m","n","o","p","q",
     "r","s","t","u","v","w","x","y","z",
     "A","B","C","D","E","F","G","H","I","J","K","L","M","N","O","P","Q",
     "R","S","T","U","V","W","X","Y","Z"}

Digits == {"0","1","2","3","4","5","6","7","8","9"}

\* \w of the regular expression
WordChars == Letters \cup Digits \cup {"_"}

\* [-\w] of the regular expression
IsNameChar(c) == c \in WordChars \cup {"-"}

N_url == <<"u","r","l">>
N_method == <<"m","e","t","h","o","d">>
N_status == <<"s","t","a","t","u","s">>
N_date == <<"d","a","t","e">>
N_res == <<"r","e","s">>
N_req == <<"r","e","q">>
N_referrer == <<"r","e","f","e","r","r","e","r">>
N_responseTime == <<"r","e","s","p","o","n","s","e","-","t","i","m","e">>
N_remoteAddr == <<"r","e","m","o","t","e","-","a","d","d","r">>
N_remoteUser == <<"r","e","m","o","t","e","-","u","s","e","r">>
N_httpVersion == <<"h","t","t","p","-","v","e","r","s","i","o","n">>
N_userAgent == <<"u","s","e","r","-","a","g","e","n","t">>
N_default == <<"d","e","f","a","u","l","t">>
N_short == <<"s","h","o","r","t">>
N_tiny == <<"t","i","n","y">>
N_compile == <<"c","o","m","p","i","l","e">>
N_format == <<"f","o","r","m","a","t">>
N_token == <<"t","o","k","e","n">>
N_retrieveDB == <<"r","e","t","r","i","e","v","e","D","B">>
N_options == <<"o","p","t","i","o","n","s">>
N_bogus == <<"b","o","g","u","s">>
N_mine == <<"m","i","n","e">>
A_contentLength == <<"c","o","n","t","e","n","t","-","l","e","n","g","t","h">>

----------------------------------------------------------------------------
(* JavaScript values.  Every string is a sequence of characters; a number  *)
(* is n / 10^e; an object literal is its properties in insertion order.    *)

JV(kind, s, n, e, str, props, rec) ==
    [kind |-> kind, s |-> s, n |-> n, e |-> e, str |-> str, props |-> props,
     rec |-> rec]

Undefined == JV("undefined", "", 0, 0, <<>>, <<>>, <<>>)
Null == JV("null", "", 0, 0, <<>>, <<>>, <<>>)
StrV(chars) == JV("string", "", 0, 0, chars, <<>>, <<>>)
NumV(n, e) == JV("number", "", n, e, <<>>, <<>>, <<>>)
DateV(t) == JV("date", "", t, 0, <<>>, <<>>, <<>>)
ArrV == JV("array", "", 0, 0, <<>>, <<>>, <<>>)
FnV(id) == JV("function", id, 0, 0, <<>>, <<>>, <<>>)
CompiledFn(props) == JV("function", "compiled", 0, 0, <<>>, props, <<>>)
ObjV(rec) == JV("object", "", 0, 0, <<>>, <<>>, rec)
OptionsV(id) == JV("object", id, 0, 0, <<>>, <<>>, <<>>)

\* ToBoolean, for the values || is applied to
Truthy(v) ==
    CASE v.kind \in {"undefined", "null"} -> FALSE
      [] v.kind = "string" -> v.str # <<>>
      [] v.kind = "number" -> v.n # 0
      [] OTHER -> TRUE

\* a || b
Or(a, b) == IF Truthy(a) THEN a ELSE b

\* an outcome of a call: a value returned, or an exception thrown
Ret(v) == [threw |-> FALSE, err |-> "", val |-> v]
Throw(e) == [threw |-> TRUE, err |-> e, val |-> Undefined]

\* obj[name] of an own-property map; the names looked up in this model are
\* none of the properties a function object inherits
Get(obj, name) == IF name \in DOMAIN obj THEN obj[name] ELSE Undefined

\* { ..., key: val } : a repeated key keeps its first position
RECURSIVE PutAt(_, _, _, _)
PutAt(rec, key, val, i) ==
    IF i > Len(rec) THEN Append(rec, [k |-> key, v |-> val])
    ELSE IF rec[i].k = key THEN [rec EXCEPT ![i].v = val]
    ELSE PutAt(rec, key, val, i + 1)

Put(rec, key, val) == PutAt(rec, key, val, 1)

Keys(rec) == {rec[i].k : i \in 1..Len(rec)}

Field(rec, key) ==
    IF key \in Keys(rec)
    THEN rec[CHOOSE i \in 1..Len(rec) : rec[i].k = key].v
    ELSE Undefined

----------------------------------------------------------------------------
(* compile(format): the text it generates.  The generated source is kept   *)
(* as a sequence of items: a character, or the text one placeholder is     *)
(* replaced by (the property  "name": tokens["name"](req, res[, "arg"])),  *)
(* which is followed by the character ",".  What precedes the opening      *)
(* brace ('  "use strict"\n  return ') is the same for every format.       *)

Ch(c) == [t |-> "ch", c |-> c, name |-> <<>>, hasArg |-> FALSE, arg |-> <<>>]

PropItem(name, hasArg, arg) ==
    [t |-> "prop", c |-> "", name |-> name, hasArg |-> hasArg, arg |-> arg]

IsQuote(c) == c = "\""

\* where character i of s lands once every quote before it has grown by one
EscapedAt(s, i) == i + Cardinality({j \in 1..(i - 1) : IsQuote(s[j])})

\* format.replace(/"/g, '\\"')
EscapeQuotes(s) ==
    IF \A j \in 1..Len(s) : ~IsQuote(s[j]) THEN s
    ELSE [k \in 1..EscapedAt(s, Len(s) + 1) - 1 |->
            LET i == CHOOSE i \in 1..Len(s) :
                        /\ EscapedAt(s, i) <= k
                        /\ k <= EscapedAt(s, i) + (IF IsQuote(s[i]) THEN 1 ELSE 0)
            IN  IF IsQuote(s[i]) /\ k = EscapedAt(s, i) THEN "\\" ELSE s[i]]

\* the first index from k on that holds no name character
NameEnd(s, k) ==
    IF \E j \in k..Len(s) : ~IsNameChar(s[j])
    THEN CHOOSE j \in k..Len(s) :
            ~IsNameChar(s[j]) /\ \A m \in k..(j - 1) : IsNameChar(s[m])
    ELSE Len(s) + 1

NoMatch == [ok |-> FALSE, name |-> <<>>, hasArg |-> FALSE, arg |-> <<>>, next |-> 0]

\* /:([-\w]{2,})(?:\[([^\]]+)\])?/ tried at index i: the name is the longest
\* run of name characters, the argument the characters up to the first "]"
MatchAt(s, i) ==
    LET e == NameEnd(s, i + 1)
        closers == {j \in (e + 1)..Len(s) : s[j] = "]"}
        c == CHOOSE j \in closers : \A m \in closers : j <= m
        withArg == /\ e <= Len(s)
                   /\ s[e] = "["
                   /\ closers # {}
                   /\ c > e + 1
    IN  IF s[i] = ":" /\ e - (i + 1) >= 2
        THEN [ok |-> TRUE,
              name |-> SubSeq(s, i + 1, e - 1),
              hasArg |-> withArg,
              arg |-> IF withArg THEN SubSeq(s, e + 1, c - 1) ELSE <<>>,
              next |-> IF withArg THEN c + 1 ELSE e]
        ELSE NoMatch

\* the characters s[i..j], kept as they are
Kept(s, i, j) == [k \in 1..(j - i + 1) |-> Ch(s[i + k - 1])]

\* fmt.replace(regexp, function), from index i on: every match, left to
\* right, becomes its property text and a comma; every other character is kept
RECURSIVE ReplaceTokens(_, _)
ReplaceTokens(s, i) ==
    IF \E j \in i..Len(s) : MatchAt(s, j).ok
    THEN LET j == CHOOSE j \in i..Len(s) :
                    MatchAt(s, j).ok /\ \A k \in i..(j - 1) : ~MatchAt(s, k).ok
             m == MatchAt(s, j)
         IN  Kept(s, i, j - 1)
             \o <<PropItem(m.name, m.hasArg, m.arg), Ch(",")>>
             \o ReplaceTokens(s, m.next)
    ELSE Kept(s, i, Len(s))

\* js.substring(0, js.length - 1) + '}'
StripLast(js) == SubSeq(js, 1, Len(js) - 1) \o <<Ch("}")>>

GenerateJs(format) ==
    StripLast(<<Ch("{")>> \o ReplaceTokens(EscapeQuotes(format), 1))

----------------------------------------------------------------------------
(* new Function('tokens, req, res', js): the parse of the generated text   *)
(* as  return { ... } , and the value of every property that comes from    *)
(* the format's own characters rather than from a placeholder.  The        *)
(* characters of literal text covered are the blank, ":", "[", "]", "\",   *)
(* the double quote and the letter "a"; an expression over them is an      *)
(* identifier, an array literal or an index, whose value is an array,      *)
(* undefined, or an exception (the identifier is bound to nothing).        *)

IsCh(js, i, c) == i <= Len(js) /\ js[i].t = "ch" /\ js[i].c = c

IsIdentChar(js, i) == i <= Len(js) /\ js[i].t = "ch" /\ js[i].c \in WordChars

RECURSIVE SkipWs(_, _)
SkipWs(js, i) == IF IsCh(js, i, " ") THEN SkipWs(js, i + 1) ELSE i

RECURSIVE IdentEnd(_, _)
IdentEnd(js, i) == IF IsIdentChar(js, i) THEN IdentEnd(js, i + 1) ELSE i

IdentName(js, i, e) == [k \in 1..(e - i) |-> js[i + k - 1].c]

\* the value of an identifier in the function body: an identifier spelled
\* with the letter "a" only is no parameter, no global and no keyword
IdentValue(name) ==
    CASE \A k \in 1..Len(name) : name[k] = "a" -> "throw"

ExprFail == [ok |-> FALSE, next |-> 0, v |-> ""]

RECURSIVE ParseExpr(_, _), ParseSuffix(_, _, _)

\* an identifier, [] or [ expr ], then its indexes
ParseExpr(js, i0) ==
    LET i == SkipWs(js, i0) IN
    IF IsIdentChar(js, i)
    THEN ParseSuffix(js, IdentEnd(js, i),
                     IdentValue(IdentName(js, i, IdentEnd(js, i))))
    ELSE IF IsCh(js, i, "[")
    THEN LET j == SkipWs(js, i + 1) IN
         IF IsCh(js, j, "]") THEN ParseSuffix(js, j + 1, "array")
         ELSE LET el == ParseExpr(js, j)
                  k == SkipWs(js, el.next)
              IN  IF el.ok /\ IsCh(js, k, "]")
                  THEN ParseSuffix(js, k + 1,
                                   IF el.v = "throw" THEN "throw" ELSE "array")
                  ELSE ExprFail
    ELSE ExprFail

\* obj[key]: no array here has the property the key names, and an index
\* into undefined is a TypeError
ParseSuffix(js, i0, v) ==
    LET i == SkipWs(js, i0) IN
    IF IsCh(js, i, "[")
    THEN LET key == ParseExpr(js, i + 1)
             k == SkipWs(js, key.next)
         IN  IF key.ok /\ IsCh(js, k, "]")
             THEN ParseSuffix(js, k + 1,
                              IF v = "throw" \/ key.v = "throw" \/ v = "undefined"
                              THEN "throw" ELSE "undefined")
             ELSE ExprFail
    ELSE [ok |-> TRUE, next |-> i0, v |-> v]

TokenEntry(item) ==
    [kind |-> "token", name |-> item.name, hasArg |-> item.hasArg,
     arg |-> item.arg, v |-> ""]

LitEntry(key, v) ==
    [kind |-> "lit", name |-> key, hasArg |-> FALSE, arg |-> <<>>, v |-> v]

\* String(v) of an array of arrays or of undefined, as a property key
KeyOf(v) == IF v = "undefined" THEN <<"u","n","d","e","f","i","n","e","d">> ELSE <<>>

SyntaxError == [ok |-> FALSE, props |-> <<>>]

RECURSIVE ParseProps(_, _, _), AfterProp(_, _, _)

\* at a property definition, or at the closing brace
ParseProps(js, i0, acc) ==
    LET i == SkipWs(js, i0) IN
    IF i > Len(js) THEN SyntaxError
    ELSE IF IsCh(js, i, "}")
    THEN IF i = Len(js) THEN [ok |-> TRUE, props |-> acc] ELSE SyntaxError
    ELSE IF js[i].t = "prop"
    THEN AfterProp(js, i + 1, Append(acc, TokenEntry(js[i])))
    ELSE IF IsIdentChar(js, i)
    THEN LET e == IdentEnd(js, i)
             name == IdentName(js, i, e)
             j == SkipWs(js, e)
         IN  IF IsCh(js, j, ":")
             THEN LET x == ParseExpr(js, j + 1) IN
                  IF x.ok
                  THEN AfterProp(js, x.next, Append(acc, LitEntry(name, x.v)))
                  ELSE SyntaxError
             ELSE AfterProp(js, e, Append(acc, LitEntry(name, IdentValue(name))))
    ELSE IF IsCh(js, i, "[")
    THEN LET key == ParseExpr(js, i + 1)
             k == SkipWs(js, key.next)
             c == SkipWs(js, k + 1)
             x == ParseExpr(js, c + 1)
         IN  IF key.ok /\ IsCh(js, k, "]") /\ IsCh(js, c, ":") /\ x.ok
             THEN AfterProp(js, x.next,
                            Append(acc, LitEntry(KeyOf(key.v),
                                   IF key.v = "throw" THEN "throw" ELSE x.v)))
             ELSE SyntaxError
    ELSE SyntaxError

\* after a property definition: a comma, or the closing brace
AfterProp(js, i0, acc) ==
    LET i == SkipWs(js, i0) IN
    IF IsCh(js, i, ",") THEN ParseProps(js, i + 1, acc)
    ELSE IF IsCh(js, i, "}") /\ i = Len(js) THEN [ok |-> TRUE, props |-> acc]
    ELSE SyntaxError

\* the function body: return, then an object literal
ParseJs(js) ==
    IF IsCh(js, 1, "{") THEN ParseProps(js, 2, <<>>) ELSE SyntaxError

\* compile(format)
compile(format) ==
    IF format.kind # "string" THEN Throw("TypeError")
    ELSE LET parsed == ParseJs(GenerateJs(format.str)) IN
         IF parsed.ok THEN Ret(CompiledFn(parsed.props))
         ELSE Throw("SyntaxError")

----------------------------------------------------------------------------
(* The clock, and the request and response the tokens read *)

\* process.hrtime() at tick t: [seconds, nanoseconds]
NsPerSec == 1000000000
StartNs == 995 * 1000 * 1000
TickNs == 4115 * 1000

HrTime(t) ==
    LET total == StartNs + t * TickNs
    IN  <<total \div NsPerSec, total % NsPerSec>>

Unset == [set |-> FALSE, hr |-> <<0, 0>>]
Stamp(t) == [set |-> TRUE, hr |-> HrTime(t)]

ArrOf(elems) ==
    JV("array", "", 0, 0, <<>>, <<>>,
       [i \in 1..Len(elems) |-> [k |-> <<>>, v |-> elems[i]]])

\* header.join(', ')
RECURSIVE Join(_, _)
Join(rec, i) ==
    IF i > Len(rec) THEN <<>>
    ELSE rec[i].v.str
         \o (IF i < Len(rec) THEN <<",", " ">> ELSE <<>>)
         \o Join(rec, i + 1)

\* Array.isArray(header) ? header.join(', ') : header
JoinHeader(header) ==
    IF header.kind = "array" THEN StrV(Join(header.rec, 1)) ELSE header

UpperCase == <<"A","B","C","D","E","F","G","H","I","J","K","L","M","N","O",
               "P","Q","R","S","T","U","V","W","X","Y","Z">>
LowerCase == <<"a","b","c","d","e","f","g","h","i","j","k","l","m","n","o",
               "p","q","r","s","t","u","v","w","x","y","z">>

\* field.toLowerCase()
ToLowerCase(s) ==
    [i \in 1..Len(s) |->
        IF \E k \in 1..26 : UpperCase[k] = s[i]
        THEN LowerCase[CHOOSE k \in 1..26 : UpperCase[k] = s[i]]
        ELSE s[i]]

\* req.ip || req._remoteAddress || (req.connection && req.connection.remoteAddress) || undefined
getip(req) ==
    Or(Or(Or(req.ip, req._remoteAddress), req.connAddr), Undefined)

\* a response of node has a boolean headersSent
headersSent(res) == res.headersSent

\* this._startAt = process.hrtime(); this._startTime = new Date()
recordStartTime(this, t) ==
    [this EXCEPT !._startAt = Stamp(t), !._startTime = DateV(t)]

\* the digits argument of toFixed: a one-digit string
DigitsOf(arg) ==
    CASE arg = <<"0">> -> 0 [] arg = <<"1">> -> 1 [] arg = <<"2">> -> 2
      [] arg = <<"3">> -> 3

RECURSIVE Pow10(_)
Pow10(k) == IF k = 0 THEN 1 ELSE 10 * Pow10(k - 1)

\* parseFloat(ms.toFixed(digits)), ms the milliseconds between the stamps
ElapsedMs(from, to, digits) ==
    LET ns == (to[1] - from[1]) * NsPerSec + (to[2] - from[2])
        unit == Pow10(6 - digits)
    IN  NumV((2 * ns + unit) \div (2 * unit), digits)

\* the token functions registered at load, and two a caller may register:
\* a function that returns a string and one that returns null
CallToken(f, req, res, hasArg, arg, t) ==
    CASE f.s = "getUrlToken" -> Ret(Or(req.originalUrl, req.url))
      [] f.s = "getMethodToken" -> Ret(req.method)
      [] f.s = "getResponseTimeToken" ->
            IF ~req._startAt.set \/ ~res._startAt.set THEN Ret(Undefined)
            ELSE Ret(ElapsedMs(req._startAt.hr, res._startAt.hr,
                               IF hasArg THEN DigitsOf(arg) ELSE 3))
      [] f.s = "getDateToken" -> Ret(DateV(t))
      [] f.s = "getStatusToken" ->
            Ret(IF headersSent(res) THEN NumV(res.statusCode, 0) ELSE Undefined)
      [] f.s = "getReferrerToken" ->
            Ret(Or(Field(req.headers, <<"r","e","f","e","r","e","r">>),
                   Field(req.headers, N_referrer)))
      [] f.s = "getip" -> Ret(getip(req))
      [] f.s = "getRemoteUserToken" ->
            Ret(IF Truthy(req.credentials) THEN req.credentials ELSE Undefined)
      [] f.s = "getHttpVersionToken" ->
            Ret(NumV(req.httpVersionMajor * 10 + req.httpVersionMinor, 1))
      [] f.s = "getUserAgentToken" -> Ret(Field(req.headers, N_userAgent))
      [] f.s = "getRequestToken" ->
            IF ~hasArg THEN Throw("TypeError")
            ELSE Ret(JoinHeader(Field(req.headers, ToLowerCase(arg))))
      [] f.s = "getResponseHeader" ->
            IF ~headersSent(res) THEN Ret(Undefined)
            ELSE IF ~hasArg THEN Throw("TypeError")
            ELSE Ret(JoinHeader(Field(res.headers, ToLowerCase(arg))))
      [] f.s = "customStr" -> Ret(StrV(<<"x">>))
      [] f.s = "customNull" -> Ret(Null)

\* the compiled function: the properties in order, each placeholder's value
\* tokens[name](req, res[, arg])
RECURSIVE EvalProps(_, _, _, _, _, _, _)
EvalProps(props, i, tokens, req, res, t, rec) ==
    IF i > Len(props) THEN Ret(ObjV(rec))
    ELSE LET p == props[i] IN
         IF p.kind = "token"
         THEN LET f == Get(tokens, p.name) IN
              IF f.kind # "function" THEN Throw("TypeError")
              ELSE LET r == CallToken(f, req, res, p.hasArg, p.arg, t) IN
                   IF r.threw THEN r
                   ELSE EvalProps(props, i + 1, tokens, req, res, t,
                                  Put(rec, p.name, r.val))
         ELSE IF p.v = "throw" THEN Throw("ReferenceError")
         ELSE EvalProps(props, i + 1, tokens, req, res, t,
                        Put(rec, p.name, IF p.v = "array" THEN ArrV ELSE Undefined))

\* formatLine(expressMongo, req, res): a compiled format, a function the
\* caller passed, or the function found under the format's name; getUrlToken
\* then reads originalUrl and url of the object it is handed first, which is
\* expressMongo
CallFormat(formatLine, tokens, req, res, t) ==
    CASE formatLine.s = "compiled" ->
            EvalProps(formatLine.props, 1, tokens, req, res, t, <<>>)
      [] formatLine.s = "getUrlToken" ->
            Ret(Or(Get(tokens, <<"o","r","i","g","i","n","a","l","U","r","l">>),
                   Get(tokens, N_url)))
      [] formatLine.s \in {"customStr", "customNull"} ->
            CallToken(formatLine, req, res, FALSE, <<>>, t)

----------------------------------------------------------------------------
(* The module as loaded *)

SetProp(obj, name, v) ==
    [k \in DOMAIN obj \cup {name} |-> IF k = name THEN v ELSE obj[k]]

Ph(name) == <<":">> \o name
PhArg(name, arg) == <<":">> \o name \o <<"[">> \o arg \o <<"]">>
Sp == <<" ">>

DefaultFormat ==
    Ph(N_date) \o Sp \o Ph(N_method) \o Sp \o Ph(N_url) \o Sp \o Ph(N_status)
    \o Sp \o Ph(N_remoteAddr) \o Sp \o Ph(N_responseTime) \o Sp
    \o Ph(N_httpVersion) \o Sp \o Ph(N_remoteUser) \o Sp
    \o PhArg(N_res, A_contentLength) \o Sp \o Ph(N_referrer) \o Sp
    \o Ph(N_userAgent)

ShortFormat ==
    Ph(N_remoteAddr) \o Sp \o Ph(N_remoteUser) \o Sp \o Ph(N_method) \o Sp
    \o Ph(N_url) \o Sp \o Ph(N_httpVersion) \o Sp \o Ph(N_status) \o Sp
    \o PhArg(N_res, A_contentLength) \o Sp \o Ph(N_responseTime)

TinyFormat ==
    Ph(N_method) \o Sp \o Ph(N_url) \o Sp \o Ph(N_status) \o Sp
    \o PhArg(N_res, A_contentLength) \o Sp \o Ph(N_responseTime)

\* module.exports.compile = compile, ... : properties of expressMongo
Exports ==
    <<[name |-> N_compile, v |-> FnV("compile")],
      [name |-> N_format, v |-> FnV("format")],
      [name |-> N_token, v |-> FnV("token")],
      [name |-> N_retrieveDB, v |-> FnV("retrieveDB")]>>

\* expressMongo.format('default', ...), ... at load
BuiltinFormats ==
    <<[name |-> N_default, v |-> StrV(DefaultFormat)],
      [name |-> N_short, v |-> StrV(ShortFormat)],
      [name |-> N_tiny, v |-> StrV(TinyFormat)]>>

\* expressMongo.token('url', ...), ... at load
BuiltinTokens ==
    <<[name |-> N_url, v |-> FnV("getUrlToken")],
      [name |-> N_method, v |-> FnV("getMethodToken")],
      [name |-> N_responseTime, v |-> FnV("getResponseTimeToken")],
      [name |-> N_date, v |-> FnV("getDateToken")],
      [name |-> N_status, v |-> FnV("getStatusToken")],
      [name |-> N_referrer, v |-> FnV("getReferrerToken")],
      [name |-> N_remoteAddr, v |-> FnV("getip")],
      [name |-> N_remoteUser, v |-> FnV("getRemoteUserToken")],
      [name |-> N_httpVersion, v |-> FnV("getHttpVersionToken")],
      [name |-> N_userAgent, v |-> FnV("getUserAgentToken")],
      [name |-> N_req, v |-> FnV("getRequestToken")],
      [name |-> N_res, v |-> FnV("getResponseHeader")]>>

RECURSIVE SetAll(_, _, _)
SetAll(obj, defs, i) ==
    IF i > Len(defs) THEN obj
    ELSE SetAll(SetProp(obj, defs[i].name, defs[i].v), defs, i + 1)

NamesOf(defs) == {defs[i].name : i \in 1..Len(defs)}

\* format(name, fmt) and token(name, fn) both assign expressMongo[name]
LoadedModule == SetAll(<<>>, Exports \o BuiltinFormats \o BuiltinTokens, 1)

\* getFormatFunction(name)
getFormatFunction(tokens, name) ==
    LET fmt == Or(Or(Get(tokens, name.str), name), Get(tokens, N_default))
    IN  IF fmt.kind # "function" THEN compile(fmt) ELSE Ret(fmt)

----------------------------------------------------------------------------
(* Inputs *)

ReqIds == {"r1", "r2"}

S_GET == <<"G","E","T">>
S_POST == <<"P","O","S","T">>
S_foo == <<"/","f","o","o">>
S_bar == <<"/","b","a","r">>
S_addr == <<"1",".","2",".","3",".","4">>
S_bob == <<"b","o","b">>

\* the request as the server hands it to the middleware; credentials is
\* what auth(req) parses from it
ReqInput(r) ==
    IF r = "r1"
    THEN [method |-> StrV(S_GET), originalUrl |-> StrV(S_foo), url |-> StrV(S_foo),
          headers |-> <<[k |-> N_userAgent, v |-> StrV(<<"u","a">>)]>>,
          ip |-> StrV(S_addr), _remoteAddress |-> Undefined,
          connAddr |-> StrV(S_addr), httpVersionMajor |-> 1,
          httpVersionMinor |-> 1, credentials |-> Undefined,
          _startAt |-> Unset, _startTime |-> Undefined]
    ELSE [method |-> StrV(S_POST), originalUrl |-> Undefined, url |-> StrV(S_bar),
          headers |-> <<[k |-> N_referrer, v |-> StrV(S_foo)]>>,
          ip |-> Undefined, _remoteAddress |-> Undefined,
          connAddr |-> StrV(S_addr), httpVersionMajor |-> 1,
          httpVersionMinor |-> 0, credentials |-> StrV(S_bob),
          _startAt |-> Unset, _startTime |-> Undefined]

\* a response before its head is written
ResInput ==
    [headersSent |-> FALSE, statusCode |-> 200, headers |-> <<>>,
     _startAt |-> Unset, _startTime |-> Undefined]

\* the status the application answers each request with
StatusFor(r) == IF r = "r1" THEN 200 ELSE 404

\* the headers a handler sets with the status
HeadersFor(status) ==
    IF status = 200
    THEN <<[k |-> A_contentLength, v |-> StrV(<<"5">>)]>>
    ELSE <<[k |-> <<"s","e","t","-","c","o","o","k","i","e">>,
            v |-> ArrOf(<<StrV(<<"a">>), StrV(<<"b">>)>>)]>>

\* options.skip: "none" when absent, or a predicate of (req, res)
CallSkip(skip, req, res) ==
    CASE skip = "always" -> TRUE
      [] skip = "below400" -> res.statusCode < 400

\* the options argument: undefined, or an object naming the store
Options ==
    {[given |-> FALSE, immediate |-> FALSE, skip |-> "none"],
     [given |-> TRUE, immediate |-> FALSE, skip |-> "below400"]}
    \cup {[given |-> TRUE, immediate |-> i, skip |-> s] :
            i \in BOOLEAN, s \in {"none", "always"}}

\* the format argument of expressMongo(format, options)
FormatArgs ==
    {Undefined, StrV(Ph(N_status)), StrV(Ph(N_bogus)),
     StrV(N_url), StrV(<<"a">> \o Ph(N_url)), FnV("customNull")}

\* the arguments of token(name, fn) and of format(name, fmt)
TokenFns == {FnV("customStr")}
TokenArgNames == {N_bogus, N_tiny}
FormatFmts == {StrV(Ph(N_method))}
FormatArgNames == {N_mine, N_url}

\* the pieces the templates handed to compile are made of
Fragments ==
    {Ph(N_url), Ph(N_status), Ph(N_bogus), Ph(N_res),
     PhArg(N_res, A_contentLength), <<" ">>, <<"a">>, <<":">>, <<"[">>,
     <<"]">>, <<"\"">>}

RECURSIVE TemplatesOf(_)
TemplatesOf(k) ==
    IF k = 0 THEN {<<>>}
    ELSE LET prev == TemplatesOf(k - 1)
         IN  prev \cup {p \o f : p \in prev, f \in Fragments}

Templates == TemplatesOf(MaxFrags)

\* the views a compiled function is called with: before the head is written
\* and after
BuildViews ==
    {[req |-> recordStartTime(ReqInput(r), 0), res |-> ResInput] : r \in ReqIds}
    \cup {[req |-> recordStartTime(ReqInput(r), 0),
           res |-> [recordStartTime(ResInput, 1) EXCEPT
                        !.headersSent = TRUE, !.statusCode = st,
                        !.headers = HeadersFor(st)]] :
            r \in ReqIds, st \in {StatusFor(q) : q \in ReqIds}}

----------------------------------------------------------------------------
(* State *)

NoLogger ==
    [made |-> FALSE, fmtArg |-> Undefined, formatLine |-> Undefined,
     immediate |-> FALSE, skip |-> "none", given |-> FALSE]

\* a request the server has not yet handed to the middleware; headAt (when
\* the head was first written) and trace (what happened, in order) are history
NewRequest(r) ==
    [pc |-> "new", req |-> ReqInput(r), res |-> ResInput, cl |-> NoLogger,
     onHeaders |-> "none", onFinished |-> "none", writeHeads |-> 0,
     headAt |-> Unset,
     finished |-> FALSE, log |-> "pending", runs |-> 0, line |-> Undefined,
     err |-> "", trace |-> <<>>]

NotCalled == [state |-> "none", out |-> Ret(Undefined), view |-> <<>>]

\* no logger created, no request received
Fresh ==
    /\ tokenNames = NamesOf(BuiltinTokens)
    /\ formatNames = NamesOf(BuiltinFormats)
    /\ calls = 0
    /\ rq = [r \in ReqIds |-> NewRequest(r)]
    /\ inserts = <<>>
    /\ console = <<>>
    /\ now = 0
    /\ cfn = NotCalled
    /\ cline = NotCalled


----------------------------------------------------------------------------
(* token, format, expressMongo *)

\* token(name, fn): expressMongo[name] = fn
token(name, fn) ==
    /\ calls < MaxCalls
    /\ expressMongo' = SetProp(expressMongo, name, fn)
    /\ tokenNames' = tokenNames \cup {name}
    /\ calls' = calls + 1
    /\ UNCHANGED <<formatNames, mw, rq, inserts, console, now, cfmt, cfn, cline>>

\* format(name, fmt): expressMongo[name] = fmt
format(name, fmt) ==
    /\ calls < MaxCalls
    /\ expressMongo' = SetProp(expressMongo, name, fmt)
    /\ formatNames' = formatNames \cup {name}
    /\ calls' = calls + 1
    /\ UNCHANGED <<tokenNames, mw, rq, inserts, console, now, cfmt, cfn, cline>>

\* the format function expressMongo(format, options) settles on
FormatLineFor(tokens, fmtArg) ==
    LET fmt == IF fmtArg.kind = "undefined" THEN StrV(N_default) ELSE fmtArg
    IN  IF fmt.kind # "function" THEN getFormatFunction(tokens, fmt)
        ELSE Ret(fmt)

\* expressMongo(format, options), up to the return of logger: the closure
\* the logger keeps, and expressMongo['options'] = options; a format that
\* does not compile throws before options is stored
CreateLogger(tokens, fmtArg, options) ==
    LET fl == FormatLineFor(tokens, fmtArg) IN
    IF fl.threw
    THEN [threw |-> TRUE, mw |-> NoLogger, tokens |-> tokens]
    ELSE [threw |-> FALSE,
          mw |-> [made |-> TRUE, fmtArg |-> fmtArg, formatLine |-> fl.val,
                  immediate |-> options.immediate, skip |-> options.skip,
                  given |-> options.given],
          tokens |-> SetProp(tokens, N_options,
                             IF options.given THEN OptionsV("options")
                             ELSE Undefined)]

expressMongoCall(fmtArg, options) ==
    LET made == CreateLogger(expressMongo, fmtArg, options) IN
    /\ calls < MaxCalls
    /\ calls' = calls + 1
    /\ IF made.threw
       THEN UNCHANGED <<expressMongo, mw>>
       ELSE /\ mw' = made.mw
            /\ expressMongo' = made.tokens
    /\ UNCHANGED <<tokenNames, formatNames, rq, inserts, console, now, cfmt,
                   cfn, cline>>

----------------------------------------------------------------------------
(* The logger middleware *)

\* logRequest() without the skip test
LogRequest_NoSkip(cl, tokens, req, res, t) ==
    LET out == CallFormat(cl.formatLine, tokens, req, res, t) IN
    IF out.threw
    THEN [threw |-> TRUE, err |-> out.err, line |-> Undefined,
          insert |-> FALSE, events |-> <<"build">>]
    ELSE IF out.val.kind \in {"null", "undefined"}
    THEN [threw |-> FALSE, err |-> "", line |-> out.val, insert |-> FALSE,
          events |-> <<"build">>]
    ELSE [threw |-> FALSE, err |-> "", line |-> out.val, insert |-> TRUE,
          events |-> <<"build", "insert">>]

\* logRequest() without the test line == null
LogRequest_NoNullCheck(cl, tokens, req, res, t) ==
    IF cl.skip # "none" /\ CallSkip(cl.skip, req, res)
    THEN [threw |-> FALSE, err |-> "", line |-> Undefined, insert |-> FALSE,
          events |-> <<"skip">>]
    ELSE LET out == CallFormat(cl.formatLine, tokens, req, res, t) IN
         IF out.threw
         THEN [threw |-> TRUE, err |-> out.err, line |-> Undefined,
               insert |-> FALSE, events |-> <<"build">>]
         ELSE [threw |-> FALSE, err |-> "", line |-> out.val, insert |-> TRUE,
               events |-> <<"build", "insert">>]

\* logRequest(): what it did, in order, and what it hands to insertDB
LogRequest(cl, tokens, req, res, t) ==
    IF cl.skip # "none" /\ CallSkip(cl.skip, req, res)
    THEN [threw |-> FALSE, err |-> "", line |-> Undefined, insert |-> FALSE,
          events |-> <<"skip">>]
    ELSE LET out == CallFormat(cl.formatLine, tokens, req, res, t) IN
         IF out.threw
         THEN [threw |-> TRUE, err |-> out.err, line |-> Undefined,
               insert |-> FALSE, events |-> <<"build">>]
         ELSE IF out.val.kind \in {"null", "undefined"}
         THEN [threw |-> FALSE, err |-> "", line |-> out.val, insert |-> FALSE,
               events |-> <<"build">>]
         ELSE [threw |-> FALSE, err |-> "", line |-> out.val, insert |-> TRUE,
               events |-> <<"build", "insert">>]

\* an insertDB call that carries the records of the call before it as well
InsertCall_Batching(r, cl, line) ==
    [req |-> r, target |-> cl.given,
     items |-> IF inserts = <<>> THEN <<line>>
               ELSE Append(inserts[Len(inserts)].items, line),
     state |-> "connecting"]

\* insertDB(opts.url, opts.db, opts.collection, [line]): the promise pending
InsertCall(r, cl, line) ==
    [req |-> r, target |-> cl.given, items |-> <<line>>, state |-> "connecting"]

\* the request after logRequest() ran
Logged(q, out) ==
    [q EXCEPT !.log = IF out.threw THEN "threw" ELSE "logged",
              !.runs = @ + 1,
              !.line = out.line,
              !.err = out.err,
              !.trace = @ \o out.events]

\* a logger that calls logRequest() before next() whatever options.immediate
logger_AlwaysImmediate(r) ==
    LET req0 == [ReqInput(r) EXCEPT !._startAt = Unset, !._startTime = Undefined]
        req1 == recordStartTime([req0 EXCEPT !._remoteAddress = getip(req0)], now)
        res1 == [rq[r].res EXCEPT !._startAt = Unset, !._startTime = Undefined]
        q1 == [rq[r] EXCEPT !.req = req1, !.res = res1, !.cl = mw]
        out == LogRequest(mw, expressMongo, req1, res1, now)
    IN  /\ mw.made
        /\ rq[r].pc = "new"
        /\ rq' = [rq EXCEPT ![r] =
              IF out.threw
              THEN [Logged(q1, out) EXCEPT !.pc = "threw"]
              ELSE [Logged(q1, out) EXCEPT
                       !.pc = "handled", !.trace = @ \o <<"next">>]]
        /\ inserts' = IF out.insert
                      THEN Append(inserts, InsertCall(r, mw, out.line))
                      ELSE inserts
        /\ UNCHANGED <<expressMongo, tokenNames, formatNames, calls,
                       mw, console, now, cfmt, cfn, cline>>

\* logger(req, res, next)
logger(r) ==
    LET req0 == [ReqInput(r) EXCEPT !._startAt = Unset, !._startTime = Undefined]
        req1 == recordStartTime([req0 EXCEPT !._remoteAddress = getip(req0)], now)
        res1 == [rq[r].res EXCEPT !._startAt = Unset, !._startTime = Undefined]
        q1 == [rq[r] EXCEPT !.req = req1, !.res = res1, !.cl = mw]
        out == LogRequest(mw, expressMongo, req1, res1, now)
    IN  /\ mw.made
        /\ rq[r].pc = "new"
        /\ IF mw.immediate
           THEN /\ rq' = [rq EXCEPT ![r] =
                     IF out.threw
                     THEN [Logged(q1, out) EXCEPT !.pc = "threw"]
                     ELSE [Logged(q1, out) EXCEPT
                              !.pc = "handled", !.trace = @ \o <<"next">>]]
                /\ inserts' = IF out.insert
                              THEN Append(inserts, InsertCall(r, mw, out.line))
                              ELSE inserts
           ELSE /\ rq' = [rq EXCEPT ![r] =
                     [q1 EXCEPT !.pc = "handled", !.onHeaders = "armed",
                                !.onFinished = "armed", !.trace = <<"next">>]]
                /\ UNCHANGED inserts
        /\ UNCHANGED <<expressMongo, tokenNames, formatNames, calls,
                       mw, console, now, cfmt, cfn, cline>>

\* a listener that runs at every writeHead
HeadersListener_Always(q, t) ==
    IF q.onHeaders # "none"
    THEN [q EXCEPT !.res = recordStartTime(q.res, t), !.onHeaders = "fired"]
    ELSE q

\* the listener onHeaders(res, recordStartTime) registered: it runs when the
\* head is first written, and at no later writeHead
HeadersListener(q, t) ==
    IF q.onHeaders = "armed"
    THEN [q EXCEPT !.res = recordStartTime(q.res, t), !.onHeaders = "fired"]
    ELSE q

\* the response writes its head; a head already sent is not sent again
WriteHead(r) ==
    LET q1 == HeadersListener(rq[r], now)
        status == StatusFor(r)
    IN
    /\ rq[r].pc # "new"
    /\ ~rq[r].finished
    /\ rq[r].writeHeads < MaxWriteHeads
    /\ rq' = [rq EXCEPT ![r] =
          IF q1.res.headersSent
          THEN [q1 EXCEPT !.writeHeads = @ + 1]
          ELSE [q1 EXCEPT !.writeHeads = @ + 1,
                          !.headAt = Stamp(now),
                          !.res.headersSent = TRUE,
                          !.res.statusCode = status,
                          !.res.headers = HeadersFor(status)]]
    /\ UNCHANGED <<expressMongo, tokenNames, formatNames, calls, mw,
                   inserts, console, now, cfmt, cfn, cline>>

\* the response finishes, closes or fails: the listener
\* onFinished(res, logRequest) runs once
Finish(r) ==
    LET q == rq[r]
        out == LogRequest(q.cl, expressMongo, q.req, q.res, now)
        q1 == [q EXCEPT !.finished = TRUE, !.trace = @ \o <<"finish">>]
    IN  /\ q.pc # "new"
        /\ ~q.finished
        /\ IF q.onFinished = "armed"
           THEN /\ rq' = [rq EXCEPT ![r] =
                            [Logged(q1, out) EXCEPT !.onFinished = "fired"]]
                /\ inserts' = IF out.insert
                              THEN Append(inserts, InsertCall(r, q.cl, out.line))
                              ELSE inserts
           ELSE /\ rq' = [rq EXCEPT ![r] = q1]
                /\ UNCHANGED inserts
        /\ UNCHANGED <<expressMongo, tokenNames, formatNames, calls,
                       mw, console, now, cfmt, cfn, cline>>

\* time passes
Tick ==
    /\ now < MaxClock
    /\ now' = now + 1
    /\ UNCHANGED <<expressMongo, tokenNames, formatNames, calls, mw,
                   rq, inserts, console, cfmt, cfn, cline>>

----------------------------------------------------------------------------
(* insertDB: connect, insertMany, close; the caller's .catch logs a        *)
(* rejection to the console                                                *)

\* a connection failure answered by a second insertDB call
ConnectFail_Retry(i) ==
    /\ inserts[i].state = "connecting"
    /\ inserts' = Append([inserts EXCEPT ![i].state = "rejected"],
                         [inserts[i] EXCEPT !.state = "connecting"])
    /\ console' = Append(console, [insert |-> i, err |-> "ConnectionError"])
    /\ UNCHANGED <<expressMongo, tokenNames, formatNames, calls, mw,
                   rq, now, cfmt, cfn, cline>>

\* MongoClient.connect calls back with an error: reject(err)
ConnectFail(i) ==
    /\ inserts[i].state = "connecting"
    /\ inserts' = [inserts EXCEPT ![i].state = "rejected"]
    /\ console' = Append(console, [insert |-> i, err |-> "ConnectionError"])
    /\ UNCHANGED <<expressMongo, tokenNames, formatNames, calls, mw,
                   rq, now, cfmt, cfn, cline>>

\* MongoClient.connect calls back with a client: coll.insertMany(items, ...)
ConnectOk(i) ==
    /\ inserts[i].state = "connecting"
    /\ inserts' = [inserts EXCEPT ![i].state = "inserting"]
    /\ UNCHANGED <<expressMongo, tokenNames, formatNames, calls, mw,
                   rq, console, now, cfmt, cfn, cline>>

\* insertMany calls back with an error: client.close(), reject(err)
InsertManyFail(i) ==
    /\ inserts[i].state = "inserting"
    /\ inserts' = [inserts EXCEPT ![i].state = "rejected"]
    /\ console' = Append(console, [insert |-> i, err |-> "WriteError"])
    /\ UNCHANGED <<expressMongo, tokenNames, formatNames, calls, mw,
                   rq, now, cfmt, cfn, cline>>

\* insertMany calls back with a result: client.close(), resolve(result)
InsertManyOk(i) ==
    /\ inserts[i].state = "inserting"
    /\ inserts' = [inserts EXCEPT ![i].state = "resolved"]
    /\ UNCHANGED <<expressMongo, tokenNames, formatNames, calls, mw,
                   rq, console, now, cfmt, cfn, cline>>

----------------------------------------------------------------------------
(* Specifications *)

\* One logger middleware, created when the application starts, and the
\* requests it handles
Init ==
    /\ Fresh
    /\ cfmt = Undefined
    /\ \E a \in FormatArgs, o \in Options :
          LET made == CreateLogger(LoadedModule, a, o) IN
          /\ ~made.threw
          /\ mw = made.mw
          /\ expressMongo = made.tokens

Next ==
    \/ \E r \in ReqIds : logger(r)
    \/ \E r \in ReqIds : WriteHead(r)
    \/ \E r \in ReqIds : Finish(r)
    \/ Tick
    \/ \E i \in DOMAIN inserts : ConnectFail(i)
    \/ \E i \in DOMAIN inserts : ConnectOk(i)
    \/ \E i \in DOMAIN inserts : InsertManyFail(i)
    \/ \E i \in DOMAIN inserts : InsertManyOk(i)

Spec == Init /\ [][Next]_vars

\* The module as loaded: calls of token, format and expressMongo, and one
\* request handled by the logger last created
InitSetup ==
    /\ Fresh
    /\ cfmt = Undefined
    /\ mw = NoLogger
    /\ expressMongo = LoadedModule

NextSetup ==
    \/ \E n \in TokenArgNames, f \in TokenFns : token(n, f)
    \/ \E n \in FormatArgNames, f \in FormatFmts : format(n, f)
    \/ \E a \in FormatArgs, o \in Options : expressMongoCall(a, o)
    \/ logger("r1")
    \/ WriteHead("r1")
    \/ Finish("r1")

SpecSetup == InitSetup /\ [][NextSetup]_vars

\* compile(format) called on a template, and the function it returns called
\* on a request and a response
InitCompile ==
    /\ Fresh
    /\ mw = NoLogger
    /\ expressMongo = LoadedModule
    /\ cfmt \in {StrV(t) : t \in Templates} \cup {Null}

Compile ==
    /\ cfn.state = "none"
    /\ cfn' = [state |-> "called", out |-> compile(cfmt), view |-> <<>>]
    /\ UNCHANGED <<expressMongo, tokenNames, formatNames, calls, mw,
                   rq, inserts, console, now, cfmt, cline>>

Build(view) ==
    /\ cfn.state = "called"
    /\ ~cfn.out.threw
    /\ cline.state = "none"
    /\ cline' = [state |-> "called",
                 out |-> CallFormat(cfn.out.val, expressMongo, view.req,
                                    view.res, now),
                 view |-> view]
    /\ UNCHANGED <<expressMongo, tokenNames, formatNames, calls, mw,
                   rq, inserts, console, now, cfmt, cfn>>

NextCompile ==
    \/ Compile
    \/ \E view \in BuildViews : Build(view)

SpecCompile == InitCompile /\ [][NextCompile]_vars

----------------------------------------------------------------------------
(* Claims about compile, under SpecCompile *)

\* the placeholders of a template, left to right
Placeholders(s) ==
    LET js == ReplaceTokens(s, 1)
    IN  SelectSeq(js, LAMBDA item : item.t = "prop")

PlaceholderNames(s) ==
    {Placeholders(s)[i].name : i \in 1..Len(Placeholders(s))}

\* the characters of a template outside its placeholders
LiteralChars(s) ==
    LET js == ReplaceTokens(s, 1)
    IN  {js[i].c : i \in {k \in 1..Len(js) : js[k].t = "ch" /\ js[k].c # ","}}

\* what the resolver registered for a placeholder returns
ResolverValue(p, view) ==
    CallToken(Get(expressMongo, p.name), view.req, view.res, p.hasArg, p.arg, now)

\* every placeholder names a token registered at load and is used as the
\* token is meant to be (res and req with a header name)
WellFormed(s) ==
    \A i \in 1..Len(Placeholders(s)) :
        LET p == Placeholders(s)[i] IN
        /\ p.name \in NamesOf(BuiltinTokens)
        /\ p.name \in {N_res, N_req} => p.hasArg

\* C1: for every template of valid placeholders and literal text (here: at
\* least one placeholder, every placeholder a registered token, the literal
\* text blanks and letters), compile returns a function, and the record that
\* function produces holds exactly the placeholder names, each with the value
\* its resolver returns.
C1_CompileBuildsExactRecord ==
    (/\ cfn.state = "called"
     /\ cfmt.kind = "string"
     /\ PlaceholderNames(cfmt.str) # {}
     /\ WellFormed(cfmt.str)
     /\ LiteralChars(cfmt.str) \subseteq {" ", "a"})
    => /\ ~cfn.out.threw
       /\ cline.state = "called" =>
            /\ ~cline.out.threw
            /\ Keys(cline.out.val.rec) = PlaceholderNames(cfmt.str)
            /\ \A k \in PlaceholderNames(cfmt.str) :
                 \E i \in 1..Len(Placeholders(cfmt.str)) :
                    /\ Placeholders(cfmt.str)[i].name = k
                    /\ Field(cline.out.val.rec, k)
                         = ResolverValue(Placeholders(cfmt.str)[i], cline.view).val

\* C2: a template that names a token with no registered resolver (its other
\* placeholders well formed, its literal text blanks) compiles, and every
\* call of the compiled function returns a record: the unknown field absent,
\* the other fields present.
C2_UnknownTokenIsAbsent ==
    (/\ cfn.state = "called"
     /\ cfmt.kind = "string"
     /\ \E k \in PlaceholderNames(cfmt.str) : Get(expressMongo, k).kind = "undefined"
     /\ \A i \in 1..Len(Placeholders(cfmt.str)) :
           LET p == Placeholders(cfmt.str)[i] IN
           \/ Get(expressMongo, p.name).kind = "undefined"
           \/ /\ p.name \in NamesOf(BuiltinTokens)
              /\ p.name \in {N_res, N_req} => p.hasArg
     /\ LiteralChars(cfmt.str) \subseteq {" "})
    => /\ ~cfn.out.threw
       /\ cline.state = "called" =>
            /\ ~cline.out.threw
            /\ \A k \in PlaceholderNames(cfmt.str) :
                 IF Get(expressMongo, k).kind = "undefined"
                 THEN Field(cline.out.val.rec, k).kind = "undefined"
                 ELSE k \in Keys(cline.out.val.rec)

----------------------------------------------------------------------------
(* Claims about the logger, under Spec *)

InsertsOf(r) == {i \in DOMAIN inserts : inserts[i].req = r}

Happened(r, e) == \E i \in DOMAIN rq[r].trace : rq[r].trace[i] = e

\* e happened, and before every f
Before(r, e, f) ==
    \A i \in DOMAIN rq[r].trace :
        rq[r].trace[i] = f =>
            \E j \in 1..(i - 1) : rq[r].trace[j] = e

LogEvents == {"skip", "build", "insert"}

\* the response as logRequest sees it: as it arrived when the logger is
\* immediate, as it finished otherwise
TriggerRes(q) == IF q.cl.immediate THEN ResInput ELSE q.res

\* logRequest ran for r, and its skip predicate returned true
SkipHeld(r) ==
    /\ rq[r].runs > 0
    /\ rq[r].cl.skip # "none"
    /\ CallSkip(rq[r].cl.skip, rq[r].req, TriggerRes(rq[r]))

\* C3: when the skip predicate returns true at the trigger point, no
\* insertDB call is made for the request, nothing is thrown, and the format
\* function is not called.
C3_SkipSuppresses ==
    \A r \in ReqIds :
        SkipHeld(r) =>
            /\ InsertsOf(r) = {}
            /\ rq[r].log = "logged"
            /\ rq[r].err = ""
            /\ ~Happened(r, "build")

\* a request skipped because its status, read when it finished, is below 400
C3_Witness ==
    \E r \in ReqIds :
        /\ SkipHeld(r)
        /\ rq[r].cl.skip = "below400"
        /\ rq[r].res.headersSent
        /\ rq[r].finished

\* the record has a field, and every field is undefined
AllAbsent(line) ==
    /\ line.kind = "object"
    /\ line.rec # <<>>
    /\ \A i \in 1..Len(line.rec) : line.rec[i].v.kind = "undefined"

\* C4 as stated: a null or absent result of the format function, a record
\* whose every field is absent included, makes no insertDB call.
C4_Original ==
    \A r \in ReqIds :
        (/\ Happened(r, "build")
         /\ rq[r].log = "logged"
         /\ \/ rq[r].line.kind \in {"null", "undefined"}
            \/ AllAbsent(rq[r].line))
        => InsertsOf(r) = {}

\* C4 as amended: a null or undefined result of the format function makes no
\* insertDB call; a record is never null, and is inserted also when every
\* field of it is absent.
C4_NullLineNotInserted ==
    \A r \in ReqIds :
        (Happened(r, "build") /\ rq[r].log = "logged") =>
            /\ rq[r].line.kind \in {"null", "undefined"} => InsertsOf(r) = {}
            /\ rq[r].line.kind = "object" => InsertsOf(r) # {}

\* the format function ran and returned null, and the request went on to
\* finish
C4_Witness ==
    \E r \in ReqIds :
        /\ Happened(r, "build")
        /\ rq[r].log = "logged"
        /\ rq[r].line.kind = "null"
        /\ InsertsOf(r) = {}
        /\ rq[r].finished

\* C5: an immediate logger runs logRequest (the record built, the insert
\* issued) inside the middleware, before next(); otherwise nothing is built
\* or inserted before the finish event, and logRequest runs when it fires,
\* also when the response ends with no head written.
C5_TriggerOrder ==
    \A r \in ReqIds :
        rq[r].pc # "new" =>
            IF rq[r].cl.immediate
            THEN /\ rq[r].runs = 1
                 /\ \A e \in LogEvents : Happened(r, e) => Before(r, e, "next")
                 /\ InsertsOf(r) # {} <=> Happened(r, "insert")
            ELSE /\ \A e \in LogEvents : Before(r, "finish", e)
                 /\ rq[r].finished <=> rq[r].runs = 1
                 /\ ~rq[r].finished => InsertsOf(r) = {}
                 /\ Happened(r, "next")

\* a response that ended with no head written was logged at finish, and an
\* immediate logger inserted before next()
C5_Witness ==
    \/ \E r \in ReqIds :
          /\ ~rq[r].cl.immediate
          /\ rq[r].finished
          /\ ~rq[r].res.headersSent
          /\ InsertsOf(r) # {}
    \/ \E r \in ReqIds :
          /\ rq[r].cl.immediate
          /\ Happened(r, "insert")
          /\ Happened(r, "next")

\* C6: whatever the interleaving, logRequest runs at most once per request,
\* a request has at most one insertDB call, every call carries exactly the
\* one record built for its request, and a request whose record was built
\* has its call issued whatever the state of the other calls.
C6_OneInsertPerRequest ==
    /\ \A r \in ReqIds :
          /\ rq[r].runs <= 1
          /\ Cardinality(InsertsOf(r)) <= 1
          /\ (rq[r].log = "logged" /\ rq[r].line.kind \notin {"null", "undefined"})
                => InsertsOf(r) # {}
    /\ \A i \in DOMAIN inserts :
          /\ Len(inserts[i].items) = 1
          /\ inserts[i].items[1] = rq[inserts[i].req].line

\* two requests with their inserts both in flight
C6_Witness ==
    \E i, j \in DOMAIN inserts :
        /\ inserts[i].req # inserts[j].req
        /\ inserts[i].state = "connecting"
        /\ inserts[j].state \in {"connecting", "inserting"}

\* C7 as stated: the response-side timestamps are taken at arrival when the
\* logger is immediate, otherwise when the head is first written, and once.
C7_Original ==
    \A r \in ReqIds :
        rq[r].pc # "new" =>
            IF rq[r].cl.immediate
            THEN rq[r].res._startAt.set
            ELSE rq[r].res._startAt = rq[r].headAt

\* C7 as amended: an immediate logger never takes the response-side
\* timestamps; otherwise they are taken when the head is first written and
\* at no later writeHead, so response-time is that of the first capture.
C7_ResponseStampedOnce ==
    \A r \in ReqIds :
        rq[r].pc # "new" =>
            IF rq[r].cl.immediate
            THEN ~rq[r].res._startAt.set
            ELSE /\ rq[r].res._startAt = rq[r].headAt
                 /\ (rq[r].line.kind = "object"
                     /\ N_responseTime \in Keys(rq[r].line.rec))
                    => Field(rq[r].line.rec, N_responseTime) =
                          IF rq[r].headAt.set
                          THEN ElapsedMs(rq[r].req._startAt.hr, rq[r].headAt.hr, 3)
                          ELSE Undefined

\* the head written a second time, later than the first, and response-time
\* logged
C7_Witness ==
    \E r \in ReqIds :
        /\ rq[r].writeHeads >= 2
        /\ rq[r].headAt = Stamp(0)
        /\ now > 0
        /\ rq[r].finished
        /\ rq[r].line.kind = "object"
        /\ Field(rq[r].line.rec, N_responseTime).kind = "number"

ReportsOf(i) == {k \in DOMAIN console : console[k].insert = i}

\* the inserts that are rejected in this step
Failing == {i \in DOMAIN inserts :
               inserts[i].state # "rejected" /\ inserts'[i].state = "rejected"}

\* C8: a failed insert is logged to the console once and nothing else: the
\* step that rejects it writes one console entry, issues no insertDB call
\* and changes no request, response or logger; and the request has one
\* insertDB call only, nothing thrown into its middleware, next() called.
C8_FailureOnlyReported ==
    /\ [](\A i \in DOMAIN inserts :
            inserts[i].state = "rejected" =>
                /\ Cardinality(ReportsOf(i)) = 1
                /\ Cardinality(InsertsOf(inserts[i].req)) = 1
                /\ rq[inserts[i].req].err = ""
                /\ rq[inserts[i].req].log = "logged"
                /\ Happened(inserts[i].req, "next"))
    /\ [][Failing # {} =>
            /\ Len(inserts') = Len(inserts)
            /\ Len(console') = Len(console) + 1
            /\ rq' = rq
            /\ mw' = mw
            /\ expressMongo' = expressMongo]_vars

\* a connection failure and a write failure, and a request that went on to
\* write its head and finish
C8_Witness ==
    /\ \E k \in DOMAIN console : console[k].err = "ConnectionError"
    /\ \E k \in DOMAIN console : console[k].err = "WriteError"
    /\ \E i \in DOMAIN inserts :
          /\ inserts[i].state = "rejected"
          /\ rq[inserts[i].req].cl.immediate
          /\ rq[inserts[i].req].finished

----------------------------------------------------------------------------
(* Claims about token, format and expressMongo, under SpecSetup *)

\* C9: a string given to expressMongo that is not the name of a defined
\* format is always compiled as a template: the logger's format function is
\* the function compile returns for that string.
C9_StringNotFormatNameIsCompiled ==
    (/\ mw.made
     /\ mw.fmtArg.kind = "string"
     /\ mw.fmtArg.str \notin formatNames)
    => /\ mw.formatLine.s = "compiled"
       /\ mw.formatLine = compile(mw.fmtArg).val

\* the value kept under each of the names
ValuesUnder(obj, names) == [n \in names |-> Get(obj, n)]

\* C10: token(name, fn) leaves every named format unchanged and changes no
\* resolver but that of name, format(name, fmt) leaves every token resolver
\* unchanged and changes no format but that of name, and creating a logger
\* or handling a request changes neither.
C10_RegistryAndCatalogIndependent ==
    [][ /\ \A n \in TokenArgNames, f \in TokenFns :
              token(n, f) =>
                  /\ ValuesUnder(expressMongo', formatNames) = ValuesUnder(expressMongo, formatNames)
                  /\ ValuesUnder(expressMongo', tokenNames \ {n}) =
                        ValuesUnder(expressMongo, tokenNames \ {n})
        /\ \A n \in FormatArgNames, f \in FormatFmts :
              format(n, f) =>
                  /\ ValuesUnder(expressMongo', tokenNames) = ValuesUnder(expressMongo, tokenNames)
                  /\ ValuesUnder(expressMongo', formatNames \ {n}) =
                        ValuesUnder(expressMongo, formatNames \ {n})
        /\ (tokenNames' = tokenNames /\ formatNames' = formatNames) =>
              ValuesUnder(expressMongo', tokenNames \cup formatNames) =
                 ValuesUnder(expressMongo, tokenNames \cup formatNames)
      ]_vars

====
